---------------------------- MODULE Spec2Model ----------------------------
(***************************************************************************)
(* The background script of amq-autopause (src/unnamed/part_002): one      *)
(* shared EventSource handle, a reconnect counter, reconnect timers set    *)
(* with setTimeout, and connectSSE, an async function that suspends once,  *)
(* on browser.storage.local.get, and runs to its end when it is resumed.   *)
(* Every handler of the script is one action; connectSSE is two (the       *)
(* storage read, and the rest), because other handlers run in between.     *)
(***************************************************************************)
EXTENDS Integers, FiniteSets, Sequences, Bags, TLC

\* ------------------------------------------------------------- constants

MAX_RECONNECT_ATTEMPTS == 10

\* Bounds of the model: transports that can be alive at once, setTimeout
\* timers pending at once, connectSSE invocations suspended at once.
MaxTransports == 2
MaxTimers == 2
MaxCalls == 2
\* animemusicquiz.com tabs that can be open at once.
MaxTabs == 2

NULL == 0
TransportIds == 1..MaxTransports

\* The reward ids a user can configure; "" is the empty text field.
RewardIds == {"RWD-1", "RWD-2"}

TabIds == 1..MaxTabs

\* The rewardId of a pause event's payload; "" is a payload without the
\* field (undefined, as an unset configuredRewardId is).
EventRewardIds == RewardIds \cup {""}

\* Who called connectSSE: the last line of the script, the CONNECT_SSE
\* message, a reconnect timer, or the storage.onChanged listener (with the
\* key that changed).
Origins == {"startup", "message", "timer", "changedEnabled", "changedRewardId"}

\* Where a suspended connectSSE stands: before the storage read ("get"), or
\* after it, with the branch the values it read select.
Gates == {"disabled", "noReward", "noSession", "ok"}

VARIABLES
  sseEnabled,          \* storage.local: sseEnabled
  configuredRewardId,  \* storage.local: configuredRewardId ("" when unset)
  twitchSession,       \* storage.local: twitchSession present
  eventSource,         \* the handle: a transport id, or NULL
  readyState,          \* readyState of every transport (CLOSED: closed or not created)
  reconnectAttempts,
  timers,              \* pending setTimeout(connectSSE, RECONNECT_DELAY)
  calls,               \* bag of suspended connectSSE invocations
  failures,            \* history: transport failures in a row (SpecAuto only)
  tabs,                \* the animemusicquiz.com tabs open now
  pause,               \* the "pause" listener in flight, and where it stands
  sent,                \* PAUSE_AMQ messages sent per tab for the event in flight
  outcome,             \* what was logged per tab for the event in flight
  sseStatus            \* popup: the last GET_SSE_STATUS response it stored

vars == <<sseEnabled, configuredRewardId, twitchSession, eventSource,
          readyState, reconnectAttempts, timers, calls, failures,
          tabs, pause, sent, outcome, sseStatus>>

\* The delivery of a pause event, and the popup's copy of the status.
delivery == <<tabs, pause, sent, outcome>>
aside == <<delivery, sseStatus>>

config == <<sseEnabled, configuredRewardId, twitchSession>>
connector == <<eventSource, readyState, reconnectAttempts, timers>>

Call(origin, pc) == [origin |-> origin, pc |-> pc]

Suspended == BagCardinality(calls)

\* The transports that were created and not closed.
Live == {t \in TransportIds : readyState[t] # "CLOSED"}

\* --------------------------------------------------------------- helpers

Min(a, b) == IF a < b THEN a ELSE b

\* The three early returns of connectSSE, in the order of the code.
Gate(enabled, rewardId, session) ==
  IF ~enabled THEN "disabled"
  ELSE IF rewardId = "" THEN "noReward"
  ELSE IF ~session THEN "noSession"
  ELSE "ok"

\* eventSource.close() on the handle, when there is one.
CloseHandle(rs) ==
  IF eventSource # NULL THEN [rs EXCEPT ![eventSource] = "CLOSED"] ELSE rs

\* GetSSEStatus without the readyState test: connected as soon as the
\* handle holds a connection.
GetSSEStatusHandleOnly ==
  [connected |-> eventSource # NULL,
   reconnectAttempts |-> reconnectAttempts]

\* GET_SSE_STATUS: what sendResponse is given.
GetSSEStatus ==
  [connected |-> eventSource # NULL /\ readyState[eventSource] = "OPEN",
   reconnectAttempts |-> reconnectAttempts]

\* ------------------------------------------------------------ connectSSE

\* connectSSE is called: it runs to its first await, the storage read.
Spawn(origin) ==
  /\ Suspended < MaxCalls
  /\ calls' = calls (+) SetToBag({Call(origin, "get")})

\* browser.storage.local.get answers with the values stored now.
StorageGet(c) ==
  /\ BagIn(c, calls)
  /\ c.pc = "get"
  /\ calls' = (calls (-) SetToBag({c}))
                (+) SetToBag({Call(c.origin,
                       Gate(sseEnabled, configuredRewardId, twitchSession))})
  /\ UNCHANGED <<config, connector>>

\* Connect without lines 55-58: the connection there is is left open.
ConnectNoClose ==
  /\ \E t \in TransportIds : readyState[t] = "CLOSED" /\ t # eventSource
  /\ LET t == CHOOSE t \in TransportIds : readyState[t] = "CLOSED" /\ t # eventSource
     IN /\ readyState' = [readyState EXCEPT ![t] = "CONNECTING"]
        /\ eventSource' = t
  /\ UNCHANGED <<reconnectAttempts, timers>>

\* The part of connectSSE after the await, for a call that passed the three
\* checks: close the connection there is, create the new EventSource.
Connect ==
  /\ \E t \in TransportIds : readyState[t] = "CLOSED" /\ t # eventSource
  /\ LET t == CHOOSE t \in TransportIds : readyState[t] = "CLOSED" /\ t # eventSource
     IN /\ readyState' = [CloseHandle(readyState) EXCEPT ![t] = "CONNECTING"]
        /\ eventSource' = t
  /\ UNCHANGED <<reconnectAttempts, timers>>

\* ConnectResume returning early when a connection is there already.
ConnectResumeKeep(c) ==
  /\ BagIn(c, calls)
  /\ c.pc # "get"
  /\ IF c.pc = "ok" /\ eventSource = NULL THEN Connect ELSE UNCHANGED connector
  /\ calls' = calls (-) SetToBag({c})
  /\ UNCHANGED config

\* ConnectResume without the three checks of lines 37-52.
ConnectResumeAlways(c) ==
  /\ BagIn(c, calls)
  /\ c.pc # "get"
  /\ Connect
  /\ calls' = calls (-) SetToBag({c})
  /\ UNCHANGED config

\* connectSSE is resumed with the values it read and runs to its end.
ConnectResume(c) ==
  /\ BagIn(c, calls)
  /\ c.pc # "get"
  /\ IF c.pc = "ok" THEN Connect ELSE UNCHANGED connector
  /\ calls' = calls (-) SetToBag({c})
  /\ UNCHANGED config

\* --------------------------------------------------- transport callbacks

\* OnOpen without line 71.
OnOpenNoReset(t) ==
  /\ readyState[t] = "CONNECTING"
  /\ readyState' = [readyState EXCEPT ![t] = "OPEN"]
  /\ UNCHANGED <<config, eventSource, reconnectAttempts, timers, calls>>

\* eventSource.onopen: the browser has set the transport's readyState OPEN.
OnOpen(t) ==
  /\ readyState[t] = "CONNECTING"
  /\ readyState' = [readyState EXCEPT ![t] = "OPEN"]
  /\ reconnectAttempts' = 0
  /\ UNCHANGED <<config, eventSource, timers, calls>>

\* Reconnect with <= for < on line 119.
ReconnectOneMore ==
  IF reconnectAttempts <= MAX_RECONNECT_ATTEMPTS
  THEN /\ timers < MaxTimers
       /\ reconnectAttempts' = reconnectAttempts + 1
       /\ timers' = timers + 1
  ELSE UNCHANGED <<reconnectAttempts, timers>>

\* Reconnect that never gives up: the counter stops at the maximum, the
\* timer is scheduled all the same.
ReconnectForever ==
  /\ timers < MaxTimers
  /\ reconnectAttempts' = Min(reconnectAttempts + 1, MAX_RECONNECT_ATTEMPTS)
  /\ timers' = timers + 1

\* The end of onerror: one more attempt after RECONNECT_DELAY, or give up.
Reconnect ==
  IF reconnectAttempts < MAX_RECONNECT_ATTEMPTS
  THEN /\ timers < MaxTimers
       /\ reconnectAttempts' = reconnectAttempts + 1
       /\ timers' = timers + 1
  ELSE UNCHANGED <<reconnectAttempts, timers>>

\* OnError without line 115: the handle is emptied, nothing is closed.
OnErrorNoClose(t, fatal) ==
  /\ readyState[t] # "CLOSED"
  /\ readyState' = [readyState EXCEPT ![t] = IF fatal THEN "CLOSED" ELSE "CONNECTING"]
  /\ eventSource' = NULL
  /\ Reconnect
  /\ UNCHANGED <<config, calls>>

\* eventSource.onerror on transport t. The browser has either failed the
\* connection (readyState CLOSED) or is re-establishing it (CONNECTING);
\* the handler closes whatever the handle holds and schedules connectSSE.
OnError(t, fatal) ==
  /\ readyState[t] # "CLOSED"
  /\ LET rs == [readyState EXCEPT ![t] = IF fatal THEN "CLOSED" ELSE "CONNECTING"]
     IN readyState' = (IF eventSource # NULL
                       THEN [rs EXCEPT ![eventSource] = "CLOSED"] ELSE rs)
  /\ eventSource' = NULL
  /\ Reconnect
  /\ UNCHANGED <<config, calls>>

\* A reconnect timer fires: setTimeout calls connectSSE.
TimerFire ==
  /\ timers > 0
  /\ timers' = timers - 1
  /\ Spawn("timer")
  /\ UNCHANGED <<config, eventSource, readyState, reconnectAttempts>>

\* ------------------------------------------------------ runtime.onMessage

\* CONNECT_SSE: connectSSE is called (the response is sent when it ends).
ConnectSSE ==
  /\ Spawn("message")
  /\ UNCHANGED <<config, connector>>

\* DisconnectSSE that also stores sseEnabled = false.
DisconnectSSEPersist ==
  /\ eventSource # NULL
  /\ readyState' = CloseHandle(readyState)
  /\ eventSource' = NULL
  /\ sseEnabled' = FALSE
  /\ UNCHANGED <<configuredRewardId, twitchSession, reconnectAttempts, timers, calls>>

\* DISCONNECT_SSE with a connection; without one the handler changes nothing.
\* reconnectAttempts is not reset and no timer is cleared.
DisconnectSSE ==
  /\ eventSource # NULL
  /\ readyState' = CloseHandle(readyState)
  /\ eventSource' = NULL
  /\ UNCHANGED <<config, reconnectAttempts, timers, calls>>

\* ------------------------------------------------------ storage.onChanged

\* The listener: connectSSE when sseEnabled or configuredRewardId changed,
\* nothing for any other key.
OnChanged(keys) ==
  IF "sseEnabled" \in keys THEN Spawn("changedEnabled")
  ELSE IF "configuredRewardId" \in keys THEN Spawn("changedRewardId")
  ELSE UNCHANGED calls

\* handleToggleSSE: storage.local.set({sseEnabled: !sseEnabled}).
ToggleSSE ==
  /\ sseEnabled' = ~sseEnabled
  /\ OnChanged({"sseEnabled"})
  /\ UNCHANGED <<configuredRewardId, twitchSession, connector>>

\* handleSaveConfig: the reward id of the form is stored (sseEnabled is
\* stored with the value it has). The button is disabled on an empty id.
SaveConfig(r) ==
  /\ r # configuredRewardId
  /\ configuredRewardId' = r
  /\ OnChanged({"configuredRewardId"})
  /\ UNCHANGED <<sseEnabled, twitchSession, connector>>

\* signInWithTwitch / getStoredSession: storage.local.set({twitchSession}).
SignIn ==
  /\ ~twitchSession
  /\ twitchSession' = TRUE
  /\ OnChanged({"twitchSession"})
  /\ UNCHANGED <<sseEnabled, configuredRewardId, connector>>

\* signOutTwitch: storage.local.remove("twitchSession").
SignOut ==
  /\ twitchSession
  /\ twitchSession' = FALSE
  /\ OnChanged({"twitchSession"})
  /\ UNCHANGED <<sseEnabled, configuredRewardId, connector>>

\* ------------------------------------------------- the "pause" listener

\* The listener in flight (one at a time): pc is "idle" before the first
\* event, "get" while it awaits the storage read, "query" while sendPauseToAMQ
\* awaits tabs.query, "send" at the head of the for loop, "wait" while it
\* awaits the response of tabs[i], "done" when it has returned (result says
\* how). tabs is the array tabs.query answered.
PauseAt(pc, rewardId, tabsSeq, i, result) ==
  [pc |-> pc, rewardId |-> rewardId, tabs |-> tabsSeq, i |-> i, result |-> result]

NoPause == PauseAt("idle", "", <<>>, 0, "none")

\* tabs.query answers with the tabs open now, as an array (by tab id).
RECURSIVE TabsArray(_)
TabsArray(S) ==
  IF S = {} THEN <<>>
  ELSE LET k == CHOOSE x \in S : \A y \in S : x <= y
       IN <<k>> \o TabsArray(S \ {k})

Range(q) == {q[j] : j \in 1..Len(q)}

\* Line 88: the stored id and the payload's id are compared with !==.
Match(configured, rewardId) == configured = rewardId

\* A "pause" event is dispatched on an open transport: the listener parses
\* the payload and awaits the storage read.
PauseEvent(t, r) ==
  /\ readyState[t] = "OPEN"
  /\ pause.pc \in {"idle", "done"}
  /\ pause' = PauseAt("get", r, <<>>, 0, "none")
  /\ sent' = [k \in TabIds |-> 0]
  /\ outcome' = [k \in TabIds |-> "none"]
  /\ UNCHANGED tabs

\* The listener without the comparison of line 88: every pause event is
\* delivered.
PauseGetNoFilter ==
  /\ pause.pc = "get"
  /\ pause' = [pause EXCEPT !.pc = "query"]
  /\ UNCHANGED <<tabs, sent, outcome>>

\* PauseMalformed with the parse error caught and the payload taken as {}.
PauseMalformedAsEmpty(t) ==
  /\ readyState[t] = "OPEN"
  /\ pause.pc \in {"idle", "done"}
  /\ pause' = PauseAt("get", "", <<>>, 0, "none")
  /\ sent' = [k \in TabIds |-> 0]
  /\ outcome' = [k \in TabIds |-> "none"]
  /\ UNCHANGED tabs

\* A "pause" event whose data is not JSON: JSON.parse throws on the first
\* line of the listener, which ends there (a rejected promise nobody reads).
PauseMalformed(t) ==
  /\ readyState[t] = "OPEN"
  /\ pause.pc \in {"idle", "done"}
  /\ pause' = PauseAt("done", "", <<>>, 0, "malformed")
  /\ sent' = [k \in TabIds |-> 0]
  /\ outcome' = [k \in TabIds |-> "none"]
  /\ UNCHANGED tabs

\* The storage read answers: return on a mismatch, else sendPauseToAMQ is
\* called and awaits tabs.query.
PauseGet ==
  /\ pause.pc = "get"
  /\ pause' = IF Match(configuredRewardId, pause.rewardId)
              THEN [pause EXCEPT !.pc = "query"]
              ELSE [pause EXCEPT !.pc = "done", !.result = "mismatch"]
  /\ UNCHANGED <<tabs, sent, outcome>>

\* tabs.query answers: return when there is no tab, else enter the loop.
TabsQuery ==
  /\ pause.pc = "query"
  /\ pause' = IF tabs = {}
              THEN [pause EXCEPT !.pc = "done", !.result = "notabs"]
              ELSE [pause EXCEPT !.pc = "send", !.tabs = TabsArray(tabs), !.i = 1]
  /\ UNCHANGED <<tabs, sent, outcome>>

\* One turn of the for loop, up to the await: tabs.sendMessage(tab.id, ...).
Send ==
  /\ pause.pc = "send"
  /\ sent' = [sent EXCEPT ![pause.tabs[pause.i]] = @ + 1]
  /\ pause' = [pause EXCEPT !.pc = "wait"]
  /\ UNCHANGED <<tabs, outcome>>

\* The loop of sendPauseToAMQ with its try/catch around the whole loop: a
\* rejected sendMessage ends the delivery.
AfterSendAbort(o) ==
  /\ outcome' = [outcome EXCEPT ![pause.tabs[pause.i]] = o]
  /\ pause' = IF pause.i < Len(pause.tabs) /\ o # "error"
              THEN [pause EXCEPT !.pc = "send", !.i = @ + 1]
              ELSE [pause EXCEPT !.pc = "done", !.result = "delivered"]
  /\ UNCHANGED <<tabs, sent>>

\* The loop trying a tab again, once, when the send was rejected.
AfterSendRetry(o) ==
  /\ outcome' = [outcome EXCEPT ![pause.tabs[pause.i]] = o]
  /\ pause' = IF o = "error" /\ outcome[pause.tabs[pause.i]] = "none"
              THEN [pause EXCEPT !.pc = "send"]
              ELSE IF pause.i < Len(pause.tabs)
              THEN [pause EXCEPT !.pc = "send", !.i = @ + 1]
              ELSE [pause EXCEPT !.pc = "done", !.result = "delivered"]
  /\ UNCHANGED <<tabs, sent>>

\* The turn after the await (o is what the tab answered or "error" for a
\* rejected sendMessage): log it, then the next tab or the end of the loop.
AfterSend(o) ==
  /\ outcome' = [outcome EXCEPT ![pause.tabs[pause.i]] = o]
  /\ pause' = IF pause.i < Len(pause.tabs)
              THEN [pause EXCEPT !.pc = "send", !.i = @ + 1]
              ELSE [pause EXCEPT !.pc = "done", !.result = "delivered"]
  /\ UNCHANGED <<tabs, sent>>

\* The awaited sendMessage settles: the content script of an open tab
\* answers {success: true} or {success: false}; the promise is rejected
\* when nothing receives the message. Nothing makes it settle.
Respond(o) ==
  /\ pause.pc = "wait"
  /\ o \in {"ok", "failed"} => pause.tabs[pause.i] \in tabs
  /\ AfterSend(o)

\* The user opens or closes an animemusicquiz.com tab.
TabOpen(k) ==
  /\ k \notin tabs
  /\ tabs' = tabs \cup {k}
  /\ UNCHANGED <<pause, sent, outcome>>

TabClose(k) ==
  /\ k \in tabs
  /\ tabs' = tabs \ {k}
  /\ UNCHANGED <<pause, sent, outcome>>

\* The popup asks GET_SSE_STATUS (on mount and every 5 s) and stores the
\* response.
PollStatus ==
  /\ sseStatus' = GetSSEStatus
  /\ UNCHANGED <<config, connector, calls, failures, delivery>>

\* ------------------------------------------ connectSSE of part_001

\* The two checks of part_001 (no twitchSession check there).
Part001Gate(enabled, rewardId) ==
  IF ~enabled THEN "disabled"
  ELSE IF rewardId = "" THEN "noReward"
  ELSE "ok"

\* A suspended connectSSE of part_001 awaits the storage read ("get"), its
\* resumption with what was read, or cookies.getAll ("cookies").
Part001CallKinds == [origin : Origins, pc : {"get", "disabled", "noReward", "ok", "cookies"}]

\* browser.storage.local.get answers with the values stored now.
Part001StorageGet(c) ==
  /\ BagIn(c, calls)
  /\ c.pc = "get"
  /\ calls' = (calls (-) SetToBag({c}))
                (+) SetToBag({Call(c.origin, Part001Gate(sseEnabled, configuredRewardId))})
  /\ UNCHANGED <<config, connector>>

\* connectSSE is resumed with what it read: return when a check fails, else
\* close the connection there is and await cookies.getAll.
Part001Resume(c) ==
  /\ BagIn(c, calls)
  /\ c.pc \in {"disabled", "noReward", "ok"}
  /\ IF c.pc = "ok"
     THEN /\ readyState' = CloseHandle(readyState)
          /\ eventSource' = NULL
          /\ calls' = (calls (-) SetToBag({c})) (+) SetToBag({Call(c.origin, "cookies")})
     ELSE /\ calls' = calls (-) SetToBag({c})
          /\ UNCHANGED <<eventSource, readyState>>
  /\ UNCHANGED <<config, reconnectAttempts, timers>>

\* cookies.getAll answers: the new EventSource is put in the handle,
\* whatever the handle holds by now.
Part001Create(c) ==
  /\ BagIn(c, calls)
  /\ c.pc = "cookies"
  /\ \E t \in TransportIds : readyState[t] = "CLOSED"
  /\ LET t == CHOOSE t \in TransportIds : readyState[t] = "CLOSED"
     IN /\ readyState' = [readyState EXCEPT ![t] = "CONNECTING"]
        /\ eventSource' = t
  /\ calls' = calls (-) SetToBag({c})
  /\ UNCHANGED <<config, reconnectAttempts, timers>>

\* ---------------------------------------------------------- specification

CallKinds == {Call(o, p) : o \in Origins, p \in Gates \cup {"get"}}

\* The script has run: nothing is connected and the connectSSE() of its last
\* line waits for the storage read. The store holds whatever was saved.
Init ==
  /\ sseEnabled \in BOOLEAN
  /\ configuredRewardId \in RewardIds \cup {""}
  /\ twitchSession \in BOOLEAN
  /\ eventSource = NULL
  /\ readyState = [t \in TransportIds |-> "CLOSED"]
  /\ reconnectAttempts = 0
  /\ timers = 0
  /\ calls = SetToBag({Call("startup", "get")})
  /\ failures = 0
  /\ tabs = {}
  /\ pause = NoPause
  /\ sent = [k \in TabIds |-> 0]
  /\ outcome = [k \in TabIds |-> "none"]
  /\ sseStatus = [connected |-> FALSE, reconnectAttempts |-> 0]

\* Every handler, under any interleaving. The history variable is not kept.
Next ==
  \/ \E c \in CallKinds : StorageGet(c) /\ UNCHANGED <<failures, aside>>
  \/ \E c \in CallKinds : ConnectResume(c) /\ UNCHANGED <<failures, aside>>
  \/ \E t \in TransportIds : OnOpen(t) /\ UNCHANGED <<failures, aside>>
  \/ \E t \in TransportIds, fatal \in BOOLEAN : OnError(t, fatal) /\ UNCHANGED <<failures, aside>>
  \/ TimerFire /\ UNCHANGED <<failures, aside>>
  \/ ConnectSSE /\ UNCHANGED <<failures, aside>>
  \/ DisconnectSSE /\ UNCHANGED <<failures, aside>>
  \/ ToggleSSE /\ UNCHANGED <<failures, aside>>
  \/ \E r \in RewardIds : SaveConfig(r) /\ UNCHANGED <<failures, aside>>
  \/ SignIn /\ UNCHANGED <<failures, aside>>
  \/ SignOut /\ UNCHANGED <<failures, aside>>

Spec == Init /\ [][Next]_vars

\* The script left alone after it started: no message, no storage write.
\* failures counts the transport failures since the start or the last open
\* (it stops counting two past the maximum).
NextAuto ==
  \/ \E c \in CallKinds : StorageGet(c) /\ UNCHANGED <<failures, aside>>
  \/ \E c \in CallKinds : ConnectResume(c) /\ UNCHANGED <<failures, aside>>
  \/ \E t \in TransportIds : OnOpen(t) /\ failures' = 0 /\ UNCHANGED aside
  \/ \E t \in TransportIds, fatal \in BOOLEAN :
        /\ OnError(t, fatal)
        /\ failures' = Min(failures + 1, MAX_RECONNECT_ATTEMPTS + 2)
        /\ UNCHANGED aside
  \/ TimerFire /\ UNCHANGED <<failures, aside>>

SpecAuto == Init /\ [][NextAuto]_vars

\* SpecAuto in which every step that is pending is eventually taken: a
\* storage read answers, a timer fires, a connection attempt opens or fails.
SpecAutoFair == SpecAuto /\ WF_vars(NextAuto)

\* The connector with its transport callbacks and DISCONNECT_SSE, and the
\* delivery of pause events to the tabs; the configuration stays as stored.
rest == <<config, connector, calls>>

NextDeliver ==
  \/ \E c \in CallKinds : StorageGet(c) /\ UNCHANGED <<failures, aside>>
  \/ \E c \in CallKinds : ConnectResume(c) /\ UNCHANGED <<failures, aside>>
  \/ \E t \in TransportIds : OnOpen(t) /\ UNCHANGED <<failures, aside>>
  \/ \E t \in TransportIds, fatal \in BOOLEAN : OnError(t, fatal) /\ UNCHANGED <<failures, aside>>
  \/ TimerFire /\ UNCHANGED <<failures, aside>>
  \/ DisconnectSSE /\ UNCHANGED <<failures, aside>>
  \/ \E t \in TransportIds, r \in EventRewardIds :
        PauseEvent(t, r) /\ UNCHANGED <<rest, failures, sseStatus>>
  \/ PauseGet /\ UNCHANGED <<rest, failures, sseStatus>>
  \/ TabsQuery /\ UNCHANGED <<rest, failures, sseStatus>>
  \/ Send /\ UNCHANGED <<rest, failures, sseStatus>>
  \/ \E o \in {"ok", "failed", "error"} : Respond(o) /\ UNCHANGED <<rest, failures, sseStatus>>
  \/ \E k \in TabIds : TabOpen(k) /\ UNCHANGED <<rest, failures, sseStatus>>
  \/ \E k \in TabIds : TabClose(k) /\ UNCHANGED <<rest, failures, sseStatus>>

SpecDeliver == Init /\ [][NextDeliver]_vars

\* A connection that stays up until DISCONNECT_SSE (no transport error),
\* CONNECT_SSE, changes of the reward id, and the events on the connection,
\* well-formed or not, with their delivery.
NextEvents ==
  \/ \E c \in CallKinds : StorageGet(c) /\ UNCHANGED <<failures, aside>>
  \/ \E c \in CallKinds : ConnectResume(c) /\ UNCHANGED <<failures, aside>>
  \/ \E t \in TransportIds : OnOpen(t) /\ UNCHANGED <<failures, aside>>
  \/ ConnectSSE /\ UNCHANGED <<failures, aside>>
  \/ DisconnectSSE /\ UNCHANGED <<failures, aside>>
  \/ \E r \in RewardIds : SaveConfig(r) /\ UNCHANGED <<failures, aside>>
  \/ \E t \in TransportIds, r \in EventRewardIds :
        PauseEvent(t, r) /\ UNCHANGED <<rest, failures, sseStatus>>
  \/ \E t \in TransportIds : PauseMalformed(t) /\ UNCHANGED <<rest, failures, sseStatus>>
  \/ PauseGet /\ UNCHANGED <<rest, failures, sseStatus>>
  \/ TabsQuery /\ UNCHANGED <<rest, failures, sseStatus>>
  \/ Send /\ UNCHANGED <<rest, failures, sseStatus>>
  \/ \E o \in {"ok", "failed", "error"} : Respond(o) /\ UNCHANGED <<rest, failures, sseStatus>>
  \/ \E k \in TabIds : TabOpen(k) /\ UNCHANGED <<rest, failures, sseStatus>>
  \/ \E k \in TabIds : TabClose(k) /\ UNCHANGED <<rest, failures, sseStatus>>

SpecEvents == Init /\ [][NextEvents]_vars

\* part_001: its connectSSE with the transport callbacks, the timer, the
\* two messages and the popup's save of a reward id.
NextPart001 ==
  \/ \E c \in Part001CallKinds : Part001StorageGet(c) /\ UNCHANGED <<failures, aside>>
  \/ \E c \in Part001CallKinds : Part001Resume(c) /\ UNCHANGED <<failures, aside>>
  \/ \E c \in Part001CallKinds : Part001Create(c) /\ UNCHANGED <<failures, aside>>
  \/ \E t \in TransportIds : OnOpen(t) /\ UNCHANGED <<failures, aside>>
  \/ \E t \in TransportIds, fatal \in BOOLEAN : OnError(t, fatal) /\ UNCHANGED <<failures, aside>>
  \/ TimerFire /\ UNCHANGED <<failures, aside>>
  \/ ConnectSSE /\ UNCHANGED <<failures, aside>>
  \/ DisconnectSSE /\ UNCHANGED <<failures, aside>>
  \/ \E r \in RewardIds : SaveConfig(r) /\ UNCHANGED <<failures, aside>>

SpecPart001 == Init /\ [][NextPart001]_vars

\* The filter and the delivery on their own: a pause event with any payload
\* id has been received, with any reward id stored and any tabs open.
InitFilter ==
  /\ sseEnabled \in BOOLEAN
  /\ configuredRewardId \in RewardIds \cup {""}
  /\ twitchSession \in BOOLEAN
  /\ eventSource = 1
  /\ readyState = [t \in TransportIds |-> IF t = 1 THEN "OPEN" ELSE "CLOSED"]
  /\ reconnectAttempts = 0
  /\ timers = 0
  /\ calls = EmptyBag
  /\ failures = 0
  /\ tabs \in SUBSET TabIds
  /\ \E r \in EventRewardIds : pause = PauseAt("get", r, <<>>, 0, "none")
  /\ sent = [k \in TabIds |-> 0]
  /\ outcome = [k \in TabIds |-> "none"]
  /\ sseStatus = [connected |-> FALSE, reconnectAttempts |-> 0]

NextFilter ==
  \/ PauseGet /\ UNCHANGED <<rest, failures, sseStatus>>
  \/ TabsQuery /\ UNCHANGED <<rest, failures, sseStatus>>
  \/ Send /\ UNCHANGED <<rest, failures, sseStatus>>
  \/ \E o \in {"ok", "failed", "error"} : Respond(o) /\ UNCHANGED <<rest, failures, sseStatus>>

SpecFilter == InitFilter /\ [][NextFilter]_vars

NoCalls == calls = EmptyBag

\* The connector has given up: nothing connected, nothing scheduled, nothing
\* suspended, the counter at its maximum.
Failed ==
  /\ eventSource = NULL /\ Live = {}
  /\ timers = 0 /\ NoCalls
  /\ GetSSEStatus = [connected |-> FALSE, reconnectAttempts |-> MAX_RECONNECT_ATTEMPTS]

\* The script left alone, as in SpecAuto, until it has given up; then a
\* CONNECT_SSE, which starts a new sequence of attempts.
NextRestart ==
  \/ NextAuto
  \/ Failed /\ ConnectSSE /\ failures' = 0 /\ UNCHANGED aside

SpecRestart == Init /\ [][NextRestart]_vars

\* The connector with its transport callbacks and the three messages.
NextStatus ==
  \/ \E c \in CallKinds : StorageGet(c) /\ UNCHANGED <<failures, aside>>
  \/ \E c \in CallKinds : ConnectResume(c) /\ UNCHANGED <<failures, aside>>
  \/ \E t \in TransportIds : OnOpen(t) /\ UNCHANGED <<failures, aside>>
  \/ \E t \in TransportIds, fatal \in BOOLEAN : OnError(t, fatal) /\ UNCHANGED <<failures, aside>>
  \/ TimerFire /\ UNCHANGED <<failures, aside>>
  \/ ConnectSSE /\ UNCHANGED <<failures, aside>>
  \/ DisconnectSSE /\ UNCHANGED <<failures, aside>>
  \/ PollStatus

SpecStatus == Init /\ [][NextStatus]_vars

TypeOK ==
  /\ sseEnabled \in BOOLEAN
  /\ configuredRewardId \in RewardIds \cup {""}
  /\ twitchSession \in BOOLEAN
  /\ eventSource \in TransportIds \cup {NULL}
  /\ readyState \in [TransportIds -> {"CONNECTING", "OPEN", "CLOSED"}]
  /\ reconnectAttempts \in 0..MAX_RECONNECT_ATTEMPTS
  /\ timers \in 0..MaxTimers
  /\ IsABag(calls) /\ Suspended <= MaxCalls
  /\ tabs \in SUBSET TabIds
  /\ pause.pc \in {"idle", "get", "query", "send", "wait", "done"}
  /\ pause.rewardId \in EventRewardIds
  /\ pause.i \in 0..MaxTabs /\ Range(pause.tabs) \subseteq TabIds
  /\ pause.result \in {"none", "mismatch", "notabs", "delivered", "malformed"}
  /\ sent \in [TabIds -> 0..1]
  /\ outcome \in [TabIds -> {"none", "ok", "failed", "error"}]
  /\ sseStatus.connected \in BOOLEAN
  /\ sseStatus.reconnectAttempts \in 0..MAX_RECONNECT_ATTEMPTS


\* ----------------------------------------------------------------- claims

\* C1: whenever the handle holds a connection, the stored configuration is
\* enabled, has a reward id and has a session.
C1_ConnectionOnlyWhenGated ==
  eventSource # NULL => Gate(sseEnabled, configuredRewardId, twitchSession) = "ok"

\* C2: a CONNECT_SSE whose connectSSE read a configuration that is disabled,
\* without reward id or without session (and the configuration is still the
\* one it read) leaves no connection, neither open nor connecting, when it
\* has been handled.
C2_RefusedStartLeavesIdle ==
  [][\A c \in CallKinds :
       (/\ c.origin = "message" /\ c.pc # "ok"
        /\ c.pc = Gate(sseEnabled, configuredRewardId, twitchSession)
        /\ ConnectResume(c))
         => eventSource' = NULL /\ Live' = {}]_vars

\* C3, as claimed: after MAX_RECONNECT_ATTEMPTS transport failures in a row
\* the connector has given up and GET_SSE_STATUS answers
\* {connected: false, reconnectAttempts: MAX_RECONNECT_ATTEMPTS}.
C3_FailedAfterMax ==
  failures = MAX_RECONNECT_ATTEMPTS => Failed

\* C3, amended: it is after MAX_RECONNECT_ATTEMPTS + 1 failures in a row (the
\* first attempt and every reconnect) that the connector has given up, with
\* that status; no further failure follows, so no further attempt was made.
C3_FailedAfterMaxPlusOne ==
  /\ failures <= MAX_RECONNECT_ATTEMPTS + 1
  /\ failures = MAX_RECONNECT_ATTEMPTS + 1 => Failed

C3_Witness ==
  failures = MAX_RECONNECT_ATTEMPTS + 1

\* C4: every step in which a transport goes from CONNECTING to OPEN leaves the
\* counter at 0, and GET_SSE_STATUS then answers with 0; the counter is 0
\* for as long as the status is connected.
C4_OpenResetsAttempts ==
  [][(\A t \in TransportIds :
        (readyState[t] = "CONNECTING" /\ readyState'[t] = "OPEN")
          => GetSSEStatus'.reconnectAttempts = 0)
     /\ (GetSSEStatus'.connected => GetSSEStatus'.reconnectAttempts = 0)]_vars

\* An open connection with the counter at 0 while the timer of an earlier
\* failure (which had raised the counter) is still pending.
C4_Witness ==
  GetSSEStatus = [connected |-> TRUE, reconnectAttempts |-> 0] /\ timers > 0

\* C5: when DISCONNECT_SSE has been handled no reconnect timer is pending.
C5_StopCancelsReconnect ==
  [][DisconnectSSE => timers' = 0]_vars

\* C6: at most one transport is created and not closed, and it is the one
\* the handle holds.
C6_AtMostOneTransport ==
  /\ Cardinality(Live) <= 1
  /\ Live # {} => Live = {eventSource}

\* A live transport while another connectSSE, past its checks, is about to
\* replace it.
C6_Witness ==
  /\ eventSource # NULL /\ Live = {eventSource}
  /\ \E c \in BagToSet(calls) : c.pc = "ok"

\* C7: at most one reconnect timer is pending.
C7_AtMostOneTimer ==
  timers <= 1

\* The connectSSE of a change of configuredRewardId alone resumes, past its
\* checks, on an open connection.
FilterChangeOnOpen(c) ==
  /\ c.origin = "changedRewardId" /\ c.pc = "ok"
  /\ eventSource # NULL /\ readyState[eventSource] = "OPEN"
  /\ ConnectResume(c)

C9_DisableTearsDown ==
  [][\A c \in CallKinds :
       (c.origin = "changedEnabled" /\ c.pc = "disabled" /\ ConnectResume(c))
         => eventSource' = NULL /\ Live' = {}]_vars

\* Nothing of the script is pending: no suspended connectSSE, no timer.
Quiescent == NoCalls /\ timers = 0

\* C10: a change of twitchSession issues a stop or a start. With nothing
\* else pending, removing it while a connection exists closes the
\* connection or calls connectSSE, and adding it while enabled, with a
\* reward id and no connection, calls connectSSE.
C10_CredentialChangeReevaluates ==
  [][/\ (Quiescent /\ twitchSession /\ ~twitchSession' /\ eventSource # NULL)
          => (eventSource' = NULL \/ calls' # calls)
     /\ (Quiescent /\ ~twitchSession /\ twitchSession' /\ sseEnabled
           /\ configuredRewardId # "" /\ eventSource = NULL)
          => calls' # calls]_vars

\* The listener has decided that the event in flight matches.
Matched == pause.pc \in {"query", "send", "wait"} \/ pause.result \in {"notabs", "delivered"}

C12_FailureDoesNotStopDelivery ==
  /\ [](pause.result = "delivered" =>
          \A k \in Range(pause.tabs) : sent[k] = 1 /\ outcome[k] # "none")
  /\ [](pause.pc \in {"send", "wait"} =>
          \A j \in 1..Len(pause.tabs) :
            /\ sent[pause.tabs[j]] =
                 IF j < pause.i \/ (j = pause.i /\ pause.pc = "wait") THEN 1 ELSE 0
            /\ outcome[pause.tabs[j]] # "none" <=> j < pause.i)
  /\ [][\A k \in TabIds :
          outcome'[k] # outcome[k] /\ pause.pc = "wait" => k = pause.tabs[pause.i]]_vars

\* A delivery to two tabs has returned: the send to the first was rejected,
\* the second answered.
C12_Witness ==
  /\ pause.result = "delivered"
  /\ pause.tabs = <<1, 2>>
  /\ outcome[1] = "error" /\ outcome[2] = "ok"
  /\ sent[1] = 1 /\ sent[2] = 1

\* C13: for each pause event on the open connection: the listener goes on
\* to deliver exactly when the payload's id equals the stored id at that
\* moment; the tabs of the delivery are those open when tabs.query answers,
\* asked anew for each event; no tab is ever sent a second message for the
\* event; a delivery that has returned has sent exactly one message to each
\* of those tabs and none to any other; an event that did not match has
\* sent none.
C13_OneAttemptPerRegisteredTab ==
  /\ [](\A k \in TabIds : sent[k] <= 1)
  /\ [](pause.result = "mismatch" => \A k \in TabIds : sent[k] = 0)
  /\ [](pause.result = "delivered" =>
          \A k \in TabIds : sent[k] = IF k \in Range(pause.tabs) THEN 1 ELSE 0)
  /\ [][pause.pc = "get" /\ pause'.pc # "get" =>
          (pause'.pc = "query" <=> configuredRewardId = pause.rewardId)]_vars
  /\ [][pause.pc = "query" /\ pause'.pc # "query" =>
          /\ pause'.pc = "send" <=> tabs # {}
          /\ pause'.pc = "send" => Range(pause'.tabs) = tabs]_vars

\* A matching event has been delivered to the one tab that was open when
\* the delivery began; a tab opened since has received nothing.
C13_Witness ==
  /\ pause.result = "delivered"
  /\ pause.rewardId = configuredRewardId
  /\ pause.tabs = <<2>> /\ tabs = {1, 2}
  /\ sent[2] = 1 /\ sent[1] = 0

\* The connectSSE of a CONNECT_SSE is resumed while the handle holds a
\* connection, open or connecting.
StartWhileConnected(c) ==
  /\ c.origin = "message"
  /\ eventSource # NULL /\ readyState[eventSource] \in {"CONNECTING", "OPEN"}
  /\ ConnectResume(c)

\* C14, as claimed: CONNECT_SSE on a connection that is open or connecting
\* does nothing: the transport is neither closed nor replaced, its state and
\* the counter stay.
C14_StartIsNoOpWhenConnected ==
  [][\A c \in CallKinds :
       StartWhileConnected(c) => UNCHANGED <<eventSource, readyState, reconnectAttempts>>]_vars

\* C14, amended: CONNECT_SSE on a connection that is open or connecting,
\* when the configuration read passes the three checks, closes that transport
\* and puts a new one, connecting, in the handle; when it does not pass, the
\* transport is left as it is; the counter and the timers stay either way.
C14_StartReplacesTransport ==
  [][\A c \in CallKinds :
       StartWhileConnected(c) =>
         /\ IF c.pc = "ok"
            THEN /\ eventSource' \notin {NULL, eventSource}
                 /\ readyState'[eventSource] = "CLOSED"
                 /\ readyState'[eventSource'] = "CONNECTING"
                 /\ Live' = {eventSource'}
            ELSE UNCHANGED <<eventSource, readyState>>
         /\ UNCHANGED <<reconnectAttempts, timers>>]_vars

\* The connectSSE of a CONNECT_SSE has read a configuration that passes, and
\* the connection of an earlier call is still connecting.
C14_Witness ==
  /\ BagIn(Call("message", "ok"), calls)
  /\ eventSource # NULL /\ readyState[eventSource] = "CONNECTING"

\* The connector's state as one value, and what the two commands make of it
\* when nothing else happens in between: DISCONNECT_SSE, and a CONNECT_SSE
\* whose connectSSE read a configuration with gate g.
Cur ==
  [eventSource |-> eventSource, readyState |-> readyState,
   reconnectAttempts |-> reconnectAttempts, timers |-> timers]

StopFn(s) ==
  IF s.eventSource = NULL THEN s
  ELSE [s EXCEPT !.readyState[s.eventSource] = "CLOSED", !.eventSource = NULL]

\* StartFn counting the replacement of a connection as a reconnect attempt.
StartFnCounting(s, g) ==
  IF g # "ok" THEN s
  ELSE LET t == CHOOSE t \in TransportIds :
                  s.readyState[t] = "CLOSED" /\ t # s.eventSource
       IN [StopFn(s) EXCEPT !.readyState[t] = "CONNECTING", !.eventSource = t,
                            !.reconnectAttempts =
                               IF s.eventSource = NULL THEN @
                               ELSE Min(@ + 1, MAX_RECONNECT_ATTEMPTS)]

StartFn(s, g) ==
  IF g # "ok" THEN s
  ELSE LET t == CHOOSE t \in TransportIds :
                  s.readyState[t] = "CLOSED" /\ t # s.eventSource
       IN [StopFn(s) EXCEPT !.readyState[t] = "CONNECTING", !.eventSource = t]

\* What the claim compares: the state of the connection, the transports
\* alive, the counter and the pending timers.
View(s) ==
  [state |-> IF s.eventSource = NULL THEN "none" ELSE s.readyState[s.eventSource],
   live |-> Cardinality({t \in TransportIds : s.readyState[t] # "CLOSED"}),
   reconnectAttempts |-> s.reconnectAttempts,
   timers |-> s.timers]

\* C15: DISCONNECT_SSE and CONNECT_SSE do to the connector what StopFn and
\* StartFn say, and from every state two DISCONNECT_SSE in a row leave what
\* one leaves, and two CONNECT_SSE in a row (same configuration read) leave
\* what one leaves: connection state, counter and pending timers.
C15_StopAndStartIdempotent ==
  /\ [](/\ View(StopFn(StopFn(Cur))) = View(StopFn(Cur))
        /\ \A g \in Gates : View(StartFn(StartFn(Cur, g), g)) = View(StartFn(Cur, g)))
  /\ [][DisconnectSSE => Cur' = StopFn(Cur)]_vars
  /\ [][\A c \in CallKinds :
          c.origin = "message" /\ ConnectResume(c) => Cur' = StartFn(Cur, c.pc)]_vars

\* Two CONNECT_SSE in a row: the connectSSE of both have read a
\* configuration that passes and neither has been resumed.
C15_Witness ==
  /\ CopiesIn(Call("message", "ok"), calls) = 2
  /\ StopFn(Cur) # Cur

\* C16: the first failure of a sequence of attempts, the one CONNECT_SSE
\* starts after the connector has given up included, is answered with a
\* scheduled reconnect.
C16_RestartGetsFreshBudget ==
  [][failures = 0 /\ failures' = 1 => timers' = timers + 1]_vars

\* C17: when DISCONNECT_SSE has been handled no connection exists and
\* GET_SSE_STATUS answers {connected: false, reconnectAttempts: 0}.
C17_StopReportsZeroAttempts ==
  [][DisconnectSSE =>
       /\ eventSource' = NULL /\ Live' = {}
       /\ GetSSEStatus' = [connected |-> FALSE, reconnectAttempts |-> 0]]_vars

\* C18: GET_SSE_STATUS answers with the values of the moment, connected
\* exactly when the handle holds a connection and that connection is open,
\* reconnectAttempts the counter, and leaves the handle, the transports, the
\* counter, the timers, the suspended calls and the configuration as they
\* were.
C18_StatusIsPureRead ==
  [][PollStatus =>
       /\ sseStatus'.connected <=> (eventSource # NULL /\ readyState[eventSource] = "OPEN")
       /\ sseStatus'.reconnectAttempts = reconnectAttempts
       /\ UNCHANGED <<sseEnabled, configuredRewardId, twitchSession>>
       /\ UNCHANGED <<eventSource, readyState, reconnectAttempts, timers, calls>>]_vars

\* The popup has been answered while a reconnect was connecting: not
\* connected, two attempts, and the connector is as it was.
C18_Witness ==
  /\ sseStatus = [connected |-> FALSE, reconnectAttempts |-> 2]
  /\ eventSource # NULL /\ readyState[eventSource] = "CONNECTING"
  /\ reconnectAttempts = 2

\* C19: no step of the listener or of sendPauseToAMQ (the arrival of the
\* event, the filter, the tab query, a send, the outcome of a send) changes
\* the handle, the transports, the counter, the timers or the suspended
\* calls; a tab is sent a message only when it has not been sent one for
\* the event (no retry, whatever the outcome); with no tab open nothing is
\* sent.
C19_DeliveryLeavesConnection ==
  /\ [][pause' # pause \/ sent' # sent \/ outcome' # outcome =>
          UNCHANGED <<eventSource, readyState, reconnectAttempts, timers, calls>>]_vars
  /\ [][\A k \in TabIds : sent'[k] > sent[k] => sent[k] = 0 /\ outcome[k] = "none"]_vars
  /\ [](pause.result = "notabs" => \A k \in TabIds : sent[k] = 0)

\* Every send of a delivery to two tabs was rejected and the connection is
\* still open.
C19_Witness ==
  /\ pause.result = "delivered"
  /\ pause.tabs = <<1, 2>>
  /\ outcome[1] = "error" /\ outcome[2] = "error"
  /\ eventSource # NULL /\ readyState[eventSource] = "OPEN" /\ reconnectAttempts = 0

\* C20: a tab that has not answered yet holds back no other tab: whenever
\* sendPauseToAMQ is waiting for the answer of a tab, every tab of the
\* delivery has been sent the message.
C20_SlowTabHoldsNoOther ==
  pause.pc = "wait" => \A k \in Range(pause.tabs) : sent[k] = 1

\* C21, as claimed: every error of a transport closes it, adds exactly one
\* to the counter and, while the counter was below the maximum, schedules
\* one reconnect.
C21_EveryFailureCounts ==
  [][\A t \in TransportIds, fatal \in BOOLEAN :
       OnError(t, fatal) =>
         /\ readyState'[t] = "CLOSED" /\ eventSource' = NULL
         /\ reconnectAttempts' = reconnectAttempts + 1
         /\ reconnectAttempts < MAX_RECONNECT_ATTEMPTS => timers' = timers + 1]_vars

\* C21, amended: every error of a transport, connecting or open, closes it
\* and empties the handle; while the counter is below the maximum it adds
\* exactly one to the counter and schedules exactly one reconnect, whose
\* firing is one call of connectSSE; at the maximum it changes neither; the
\* counter is the number of failures since the last open (at most the
\* maximum) and onopen puts it back to 0; at any time there is at most one
\* of: a timer, a suspended connectSSE, a transport.
C21_FailureCountsBelowMax ==
  /\ [][\A t \in TransportIds, fatal \in BOOLEAN :
          OnError(t, fatal) =>
            /\ readyState'[t] = "CLOSED" /\ eventSource' = NULL /\ Live' = {}
            /\ IF reconnectAttempts < MAX_RECONNECT_ATTEMPTS
               THEN /\ reconnectAttempts' = reconnectAttempts + 1
                    /\ timers' = timers + 1
               ELSE UNCHANGED <<reconnectAttempts, timers>>]_vars
  /\ [][TimerFire => Suspended' = Suspended + 1 /\ timers' = timers - 1]_vars
  /\ [][\A t \in TransportIds : OnOpen(t) => reconnectAttempts' = 0]_vars
  /\ [](reconnectAttempts = Min(failures, MAX_RECONNECT_ATTEMPTS))
  /\ [](timers + Suspended + Cardinality(Live) <= 1)

\* Three failures in a row, the third reconnect is connecting.
C21_Witness ==
  /\ failures = 3 /\ reconnectAttempts = 3
  /\ eventSource # NULL /\ readyState[eventSource] = "CONNECTING"
  /\ timers = 0 /\ NoCalls

\* C22: a pause event whose payload cannot be parsed ends the listener at
\* once: nothing is sent to any tab, no outcome is logged, and the handle,
\* the transports, the counter, the timers and the suspended calls are as
\* before; the listener is ready for the next event on every transport that
\* is open.
C22_MalformedEventDiscarded ==
  /\ [][\A t \in TransportIds :
          PauseMalformed(t) /\ delivery' # delivery =>
            /\ UNCHANGED <<eventSource, readyState, reconnectAttempts, timers, calls>>
            /\ pause'.pc = "done"
            /\ \A k \in TabIds : sent'[k] = 0]_vars
  /\ [](pause.result = "malformed" =>
          /\ \A k \in TabIds : sent[k] = 0 /\ outcome[k] = "none"
          /\ \A t \in TransportIds, r \in EventRewardIds :
               readyState[t] = "OPEN" => ENABLED PauseEvent(t, r))

\* An unparseable pause event has been dropped and the connection it came
\* on is open.
C22_Witness ==
  /\ pause.result = "malformed"
  /\ eventSource # NULL /\ readyState[eventSource] = "OPEN"
  /\ tabs # {}

\* C23: when the storage read of the listener answers, the event goes on to
\* delivery exactly when its id equals the reward id stored at that moment,
\* whatever id was stored when the connection was created; no later change
\* of the stored id alters what the listener has decided.
C23_FilterUsesStoredIdNow ==
  /\ [][pause.pc = "get" /\ pause'.pc # "get" =>
          IF pause.rewardId = configuredRewardId
          THEN pause'.pc = "query"
          ELSE pause'.result = "mismatch"]_vars
  /\ [][configuredRewardId' # configuredRewardId => pause' = pause /\ sent' = sent]_vars

\* The reward id has been changed on an open connection, the connectSSE of
\* that change is still suspended (the connection is the one created under
\* the old id), and an event with the new id has been delivered.
C23_Witness ==
  /\ \E g \in {"get", "ok"} : BagIn(Call("changedRewardId", g), calls)
  /\ eventSource # NULL /\ readyState[eventSource] = "OPEN"
  /\ pause.result = "delivered"
  /\ pause.rewardId = configuredRewardId
  /\ \E k \in TabIds : sent[k] = 1

\* A step of the background script: connectSSE (its storage read and its
\* resumption), a transport callback, a reconnect timer, CONNECT_SSE or
\* DISCONNECT_SSE.
ConnectorStep ==
  \/ \E c \in CallKinds : StorageGet(c) \/ ConnectResume(c)
  \/ \E t \in TransportIds : OnOpen(t)
  \/ \E t \in TransportIds, fatal \in BOOLEAN : OnError(t, fatal)
  \/ TimerFire
  \/ ConnectSSE
  \/ DisconnectSSE

C25_AttemptsWithinBudget ==
  reconnectAttempts \in 0..MAX_RECONNECT_ATTEMPTS

\* The counter is at its maximum and the connection made by the last
\* reconnect is still connecting: its failure is the one that must not
\* count.
C25_Witness ==
  /\ reconnectAttempts = MAX_RECONNECT_ATTEMPTS
  /\ eventSource # NULL /\ readyState[eventSource] = "CONNECTING"

\* C26: a reconnect timer that fires calls connectSSE and nothing else; that
\* call reads the configuration stored when its read answers; when what it
\* read is disabled, has no reward id or has no session, its resumption
\* creates no connection, schedules no timer and leaves the counter.
C26_TimerReevaluatesGate ==
  /\ [][TimerFire =>
          /\ BagIn(Call("timer", "get"), calls')
          /\ UNCHANGED <<eventSource, readyState, reconnectAttempts>>]_vars
  /\ [][\A c \in CallKinds :
          c.origin = "timer" /\ StorageGet(c) =>
            BagIn(Call("timer", Gate(sseEnabled, configuredRewardId, twitchSession)), calls')]_vars
  /\ [][\A c \in CallKinds :
          c.origin = "timer" /\ c.pc \in Gates \ {"ok"} /\ ConnectResume(c) =>
            UNCHANGED <<eventSource, readyState, reconnectAttempts, timers>>]_vars

\* A reconnect was scheduled, then the configuration was disabled or the
\* session removed; the timer has fired and its connectSSE has read that.
C26_Witness ==
  /\ \E g \in {"disabled", "noSession"} : BagIn(Call("timer", g), calls)
  /\ reconnectAttempts > 0
  /\ eventSource = NULL /\ Live = {}

\* C27: while sseEnabled is stored false and no connection exists (which is
\* how DISCONNECT_SSE leaves the script), no step creates a connection.
C27_DisabledStaysDisconnected ==
  [][~sseEnabled /\ ~sseEnabled' /\ eventSource = NULL => eventSource' = NULL]_vars

\* C28: once DISCONNECT_SSE has emptied the handle (in SpecEvents nothing
\* else empties it) no PAUSE_AMQ message is sent to any tab.
C28_NoSendAfterStop ==
  [][eventSource = NULL /\ Live = {} => \A k \in TabIds : sent'[k] <= sent[k]]_vars

\* C29: in part_001 every transport that has been created and not closed is
\* the one the handle holds, so there is at most one.
C29_Part001NoLeakedTransport ==
  \A t \in TransportIds : readyState[t] # "CLOSED" => t = eventSource

\* C30: in the script left alone, a reconnect timer is scheduled only by one
\* of the first MAX_RECONNECT_ATTEMPTS failures in a row; and, the storage
\* reads, the timers and the connection attempts all coming to their end, if
\* no transport ever opens then from some moment on there is no connection,
\* no pending timer and no suspended connectSSE.
C30_RecoveryTerminates ==
  /\ [][timers' > timers =>
          timers' = timers + 1 /\ failures' <= MAX_RECONNECT_ATTEMPTS]_vars
  /\ ([](\A t \in TransportIds : readyState[t] # "OPEN")
        => <>[](eventSource = NULL /\ Live = {} /\ timers = 0 /\ NoCalls))

\* The first attempt and the ten reconnects have all failed: nothing is
\* connected, scheduled or suspended.
C30_Witness ==
  /\ failures = MAX_RECONNECT_ATTEMPTS + 1
  /\ eventSource = NULL /\ Live = {}
  /\ timers = 0 /\ NoCalls

=============================================================================
